---- MODULE Spec2Model ----
(***************************************************************************)
(* QueueCTL: the job lifecycle engine (queuectl/engine.py), its SQLite     *)
(* store (queuectl/storage.py), the worker loop (queuectl/worker.py) and   *)
(* the enqueue / dlq-retry entry points of the CLI (queuectl/cli.py).      *)
(*                                                                         *)
(* Time is counted in whole seconds: every timestamp the program stores is *)
(* produced by isoformat(timespec="seconds").  The wall clock may move to  *)
(* the next second between any two reads of utc_now().                     *)
(***************************************************************************)
EXTENDS Integers, FiniteSets, Sequences, TLC

\* ---------------------------------------------------------------- bounds
NumJobs == 2
NumWorkers == 2
NumOperators == 2
MaxClock == 2
MaxR == 1
MaxDelay == 1
MaxRunAt == 1
MaxBase == 4
MaxAttempts == 3

\* Config: max_retries as the retry test sets it, backoff_base as defaulted
ConfigMaxRetries == 2
ConfigBackoffBase == 2

Ids == 1..NumJobs
Workers == 1..NumWorkers
Operators == 1..NumOperators

\* JobState (models.py)
PENDING == "pending"
PROCESSING == "processing"
COMPLETED == "completed"
FAILED == "failed"
DEAD == "dead"
JobState == {PENDING, PROCESSING, COMPLETED, FAILED, DEAD}

\* SQL NULL / Python None for a timestamp column and for a text column
NullTime == -1
NullText == "NULL"

\* a field that is absent from a submission
Absent == -1
NoId == 0

Command == "echo hi"
OtherCommand == "exit 1"

Messages == {"Non-zero exit code"}

\* the table has no row for an id
NoRow == [id |-> NoId]

VARIABLES
  jobs,     \* the jobs table: id -> row or NoRow
  clock,    \* utc_now(), in seconds
  wpc,      \* worker -> position in worker_main's loop
  wnow,     \* worker -> now_iso read by acquire_job_for_worker
  wjob,     \* worker -> the Job object returned by acquire
  wres,     \* worker -> the ExecutionResult run_job returned for it
  opc,      \* operator -> position in dlq_retry
  ojob,     \* operator -> the Job object read by dlq_retry's get_job
  stopflag, \* the worker.stop file exists
  stopreq,  \* worker -> its process's _STOP_REQUESTED
  spc,      \* position of the command that asked the workers to stop
  returns,  \* history: id -> acquires that returned it since its last fail report
  nfail,    \* history: id -> fail reports since submission or last requeue
  acquired, \* history: id -> acquires that returned it since then
  last,     \* history: the operation that finished last
  backoff_call \* a call of compute_backoff on its own: arguments and result

vars == <<jobs, clock, wpc, wnow, wjob, wres, opc, ojob, stopflag, stopreq,
          spc, returns, nfail, acquired, last, backoff_call>>

\* what only the stop commands and the signal handler write
stopvars == <<stopflag, stopreq, spc>>

\* ------------------------------------------------------------ submissions
NoRunAt == [kind |-> "none", sec |-> 0, frac |-> 0]
BadRunAt == [kind |-> "bad", sec |-> 0, frac |-> 0]
\* frac: the sub-second part of the supplied timestamp, in milliseconds
RunAtChoices ==
  {NoRunAt, BadRunAt} \cup
  {[kind |-> "ts", sec |-> s, frac |-> f] : s \in 0..MaxRunAt, f \in {0, 500}}

\* every submission the entry points are tried with
Requests ==
  [path : {"json", "flags"},
   command : {"", Command},
   id : {NoId, 1},
   max_retries : {Absent, MaxR},
   run_at : RunAtChoices,
   delay : {Absent, MaxDelay}]

\* the submissions that feed the worker pool: accepted JSON payloads with an
\* explicit id, an immediate or a delayed first run
LifecycleRequests ==
  [path : {"json"},
   command : {Command},
   id : Ids,
   max_retries : {Absent},
   run_at : {NoRunAt},
   delay : {Absent, MaxDelay}]

\* the same, all to run at once
ImmediateRequests ==
  [path : {"json"},
   command : {Command},
   id : Ids,
   max_retries : {Absent},
   run_at : {NoRunAt},
   delay : {Absent}]

\* one job, to run at once, with the default retry budget or none at all
BudgetRequests ==
  [path : {"json"},
   command : {Command},
   id : {1},
   max_retries : {Absent, 0},
   run_at : {NoRunAt},
   delay : {Absent}]

\* the same with a per-job retry budget
WorkerRequests ==
  [path : {"json"},
   command : {Command},
   id : Ids,
   max_retries : {Absent, MaxR},
   run_at : {NoRunAt},
   delay : {Absent, MaxDelay}]

\* the same with a first run the client schedules, in the past or the future
ScheduledRequests ==
  [path : {"json"},
   command : {Command},
   id : Ids,
   max_retries : {Absent},
   run_at : {NoRunAt} \cup
            {[kind |-> "ts", sec |-> s, frac |-> 0] : s \in 0..MaxRunAt},
   delay : {Absent}]

\* submissions that differ from job to job in the fields a job keeps for
\* life: the first id runs Command on the default retry budget, every other id
\* runs OtherCommand on a budget of its own
FrameRequests ==
  {req \in [path : {"json"},
            command : {Command, OtherCommand},
            id : Ids,
            max_retries : {Absent, MaxR},
            run_at : {NoRunAt},
            delay : {Absent}] :
     IF req.id = 1
       THEN req.command = Command /\ req.max_retries = Absent
       ELSE req.command = OtherCommand /\ req.max_retries = MaxR}

NoReq == [path |-> "none", command |-> "", id |-> NoId, max_retries |-> Absent,
          run_at |-> NoRunAt, delay |-> Absent]

NoJob == NoRow

\* executor.run_job's ExecutionResult: the command exits 0, exits non-zero
\* with nothing on stderr, or is killed at the timeout (config job_timeout)
TimedOut == "Command timed out after 60 seconds"
RunResults ==
  {[exit_code |-> 0, error_message |-> NullText],
   [exit_code |-> 1, error_message |-> "Non-zero exit code"],
   [exit_code |-> -1, error_message |-> TimedOut]}
NoResult == [exit_code |-> 0, error_message |-> "no result"]

Event(op, ok, id, req, msg) ==
  [op |-> op, ok |-> ok, id |-> id, req |-> req, msg |-> msg]

\* ------------------------------------------------------------- backoff.py
RECURSIVE Pow(_, _)
Pow(b, n) == IF n = 0 THEN 1 ELSE b * Pow(b, n - 1)

\* a backoff that grows by base with every attempt
compute_backoff_linear(base, attempts) ==
  IF attempts <= 0 THEN 0 ELSE base * attempts

compute_backoff(base, attempts) ==
  IF attempts <= 0 THEN 0 ELSE Pow(base, attempts)

\* no call of compute_backoff on its own is under way
NoCall == [base |-> 0, attempts |-> 0, done |-> FALSE, result |-> 0]

\* ------------------------------------------------------------- storage.py
\* a database file that has no jobs table yet, and an empty jobs table
NoTable == <<>>
EmptyTable == [i \in Ids |-> NoRow]

\* _init_db that creates the table anew each time
init_db_recreate(db) == EmptyTable

\* JobStorage._init_db: CREATE TABLE IF NOT EXISTS jobs
init_db(db) == IF db = NoTable THEN EmptyTable ELSE db

\* INSERT OR REPLACE INTO jobs: an id that has a row is taken all the same
enqueue_or_replace(tbl, job) == TRUE

\* INSERT INTO jobs: the PRIMARY KEY rejects an id that has a row
enqueue_ok(tbl, job) == tbl[job.id] = NoRow
enqueue(tbl, job) == [tbl EXCEPT ![job.id] = job]

get_job(tbl, id) == tbl[id]

\* UPDATE jobs SET <every column> WHERE id = ?: no row, no change, no error
update_job(tbl, job) ==
  IF tbl[job.id] = NoRow THEN tbl ELSE [tbl EXCEPT ![job.id] = job]

\* whether update_job raises: the UPDATE that matches no row is not an error
\* to SQLite, and update_job does not look at the cursor's rowcount
update_job_rejects(tbl, job) == FALSE

\* the WHERE clause without its state filter
EligibleAnyState(row, now_iso) ==
  row.next_run_at = NullTime \/ row.next_run_at <= now_iso

\* the WHERE clause without its next_run_at filter
EligibleAnyTime(row, now_iso) ==
  row.state \in {PENDING, FAILED}

\* the WHERE clause that takes new jobs only: WHERE state = 'pending' AND ...
EligiblePendingOnly(row, now_iso) ==
  /\ row.state = PENDING
  /\ (row.next_run_at = NullTime \/ row.next_run_at <= now_iso)

\* WHERE state IN (pending, failed) AND (next_run_at IS NULL OR next_run_at <= ?)
Eligible(row, now_iso) ==
  /\ row.state \in {PENDING, FAILED}
  /\ (row.next_run_at = NullTime \/ row.next_run_at <= now_iso)

\* LIMIT 1 without the ORDER BY: any eligible row
AnyEligible(tbl, now_iso) ==
  {i \in Ids : tbl[i] # NoRow /\ Eligible(tbl[i], now_iso)}

\* ORDER BY created_at LIMIT 1: any row of the smallest created_at
OldestEligible(tbl, now_iso) ==
  LET due == {i \in Ids : tbl[i] # NoRow /\ Eligible(tbl[i], now_iso)}
  IN {i \in due : \A k \in due : tbl[i].created_at <= tbl[k].created_at}

\* --------------------------------------------------------------- utils.py
\* datetime.isoformat(timespec="seconds") drops the sub-second part
isoformat_seconds(sec, frac) == sec

\* executor.run_job: str(logs_dir / f"job-{job.id}.log")
log_path(id) == "job-" \o ToString(id) \o ".log"

\* uuid.uuid4(): an id that no row has; ids are opaque, the least unused one
\* stands for it
generate_job_id ==
  LET free == {i \in Ids : jobs[i] = NoRow}
  IN CHOOSE i \in free : \A k \in free : i <= k

\* ----------------------------------------------------------------- cli.py
\* main, "enqueue" with --cmd flags: the payload handed to the engine, or an
\* error
CliRejects(req) ==
  \/ req.command = ""
  \/ (req.run_at.kind # "none" /\ req.delay # Absent)

\* ---------------------------------------------------------------- engine.py
EngineRejects(req) ==
  \/ req.command = ""
  \/ req.run_at.kind = "bad"

\* the scheduling branch that forgets the delay
next_run_iso_no_delay(req, now) ==
  IF req.run_at.kind # "none"
    THEN isoformat_seconds(req.run_at.sec, req.run_at.frac)
    ELSE now

next_run_iso(req, now) ==
  IF req.run_at.kind # "none"
    THEN isoformat_seconds(req.run_at.sec, req.run_at.frac)
    ELSE IF req.delay # Absent THEN now + req.delay ELSE now

NewJob(req, id, now) ==
  [id |-> id,
   command |-> req.command,
   state |-> PENDING,
   attempts |-> 0,
   max_retries |-> IF req.max_retries = Absent THEN ConfigMaxRetries
                   ELSE req.max_retries,
   created_at |-> now,
   updated_at |-> now,
   next_run_at |-> next_run_iso(req, now),
   last_error |-> NullText,
   output_log_path |-> NullText]

SubmitFails(req) ==
  /\ UNCHANGED <<jobs, clock, wpc, wnow, wjob, opc, ojob, returns, nfail>>
  /\ UNCHANGED stopvars
  /\ UNCHANGED <<backoff_call, wres>>
  /\ UNCHANGED acquired
  /\ last' = Event("submit", FALSE, req.id, req, NullText)

\* cli.main "enqueue" -> QueueEngine.enqueue_job_from_json -> JobStorage.enqueue
enqueue_job_from_json(req) ==
  IF (req.path = "flags" /\ CliRejects(req)) \/ EngineRejects(req)
    THEN SubmitFails(req)
    ELSE \E id \in Ids :
           /\ id = (IF req.id = NoId THEN generate_job_id ELSE req.id)
           /\ LET job == NewJob(req, id, clock)
              IN IF enqueue_ok(jobs, job)
                   THEN /\ jobs' = enqueue(jobs, job)
                        /\ returns' = [returns EXCEPT ![id] = 0]
                        /\ nfail' = [nfail EXCEPT ![id] = 0]
                        /\ acquired' = [acquired EXCEPT ![id] = 0]
                        /\ last' = Event("submit", TRUE, id, req, NullText)
                        /\ UNCHANGED <<clock, wpc, wnow, wjob, opc, ojob>>
                        /\ UNCHANGED stopvars
                        /\ UNCHANGED <<backoff_call, wres>>
                   ELSE SubmitFails(req)

Submit == \E req \in LifecycleRequests : enqueue_job_from_json(req)

SubmitBudget == \E req \in WorkerRequests : enqueue_job_from_json(req)

SubmitNow == \E req \in ImmediateRequests : enqueue_job_from_json(req)

SubmitScheduled == \E req \in ScheduledRequests : enqueue_job_from_json(req)

SubmitFrame == \E req \in FrameRequests : enqueue_job_from_json(req)

SubmitAny ==
  \E req \in Requests :
    /\ req.id = NoId => \E i \in Ids : jobs[i] = NoRow
    /\ enqueue_job_from_json(req)

\* utils.has_stop_flag
has_stop_flag == stopflag

\* worker_main: if _STOP_REQUESTED or utils.has_stop_flag(): break
StopSeen(w) == stopreq[w] \/ has_stop_flag

\* worker_main passes its stop check, then
\* QueueEngine.acquire_job_for_worker: now_iso = utils.utc_now_iso()
acquire_job_for_worker(w) ==
  /\ wpc[w] = "poll"
  /\ ~StopSeen(w)
  /\ wpc' = [wpc EXCEPT ![w] = "acquire"]
  /\ wnow' = [wnow EXCEPT ![w] = clock]
  /\ UNCHANGED <<jobs, clock, wjob, opc, ojob, returns, nfail, last>>
  /\ UNCHANGED stopvars
  /\ UNCHANGED <<backoff_call, wres>>
  /\ UNCHANGED acquired

\* JobStorage.acquire_due_job: one BEGIN IMMEDIATE transaction; a caller that
\* is returned None goes on at position none_pc
acquire_transaction(w, none_pc) ==
  /\ wpc[w] = "acquire"
  /\ LET now_iso == wnow[w]
         found == OldestEligible(jobs, now_iso)
     IN IF found = {}
          THEN /\ wpc' = [wpc EXCEPT ![w] = none_pc]
               /\ last' = Event("acquire", FALSE, NoId, NoReq, NullText)
               /\ UNCHANGED <<jobs, wjob, returns, acquired>>
          ELSE \E id \in found :
                 LET job == [jobs[id] EXCEPT !.state = PROCESSING,
                                             !.updated_at = now_iso]
                 IN /\ jobs' = [jobs EXCEPT ![id].state = job.state,
                                            ![id].updated_at = job.updated_at]
                    /\ wjob' = [wjob EXCEPT ![w] = job]
                    /\ wpc' = [wpc EXCEPT ![w] = "run"]
                    /\ returns' = [returns EXCEPT ![id] = @ + 1]
                    /\ acquired' = [acquired EXCEPT ![id] = @ + 1]
                    /\ last' = Event("acquire", TRUE, id, NoReq, NullText)
  /\ wnow' = [wnow EXCEPT ![w] = 0]
  /\ UNCHANGED <<clock, opc, ojob, nfail>>
  /\ UNCHANGED stopvars
  /\ UNCHANGED <<backoff_call, wres>>

\* worker_main: job = engine.acquire_job_for_worker(); if not job: sleep and
\* continue
acquire_due_job(w) == acquire_transaction(w, "poll")

\* a caller that invokes acquire_job_for_worker once, as the tests do
acquire_once(w) == acquire_transaction(w, "done")

\* complete_job that leaves last_error as the last failure set it
CompletedJobKeepsError(job, output_log_path, now) ==
  [job EXCEPT !.state = COMPLETED,
              !.updated_at = now,
              !.next_run_at = NullTime,
              !.output_log_path = output_log_path]

\* complete_job that leaves next_run_at as the submission or the last failure
\* set it
CompletedJobKeepsNextRun(job, output_log_path, now) ==
  [job EXCEPT !.state = COMPLETED,
              !.updated_at = now,
              !.last_error = NullText,
              !.output_log_path = output_log_path]

\* QueueEngine.complete_job: the Job object it writes back
CompletedJob(job, output_log_path, now) ==
  [job EXCEPT !.state = COMPLETED,
              !.updated_at = now,
              !.next_run_at = NullTime,
              !.last_error = NullText,
              !.output_log_path = output_log_path]

\* worker_main, exit_code = 0 -> QueueEngine.complete_job
complete_job(w) ==
  /\ wpc[w] = "run"
  /\ LET job == CompletedJob(wjob[w], log_path(wjob[w].id), clock)
     IN /\ jobs' = update_job(jobs, job)
        /\ last' = Event("complete", TRUE, job.id, NoReq, NullText)
  /\ wjob' = [wjob EXCEPT ![w] = NoJob]
  /\ wpc' = [wpc EXCEPT ![w] = "poll"]
  /\ UNCHANGED <<clock, wnow, opc, ojob, returns, nfail>>
  /\ UNCHANGED stopvars
  /\ UNCHANGED <<backoff_call, wres>>
  /\ UNCHANGED acquired

\* fail_job with "attempts > max_retries" for its budget test
FailedJobStrict(job, error_message, now1, now2) ==
  LET attempts == job.attempts + 1
  IN IF attempts > job.max_retries
       THEN [job EXCEPT !.attempts = attempts,
                        !.updated_at = now1,
                        !.last_error = error_message,
                        !.state = DEAD,
                        !.next_run_at = NullTime]
       ELSE [job EXCEPT !.attempts = attempts,
                        !.updated_at = now1,
                        !.last_error = error_message,
                        !.state = FAILED,
                        !.next_run_at =
                           now2 + compute_backoff(ConfigBackoffBase, attempts)]

\* QueueEngine.fail_job: the Job object after the report.  now1 is read by
\* utc_now_iso() for updated_at, now2 by utc_now() for next_time.
FailedJob(job, error_message, now1, now2) ==
  LET attempts == job.attempts + 1
  IN IF attempts >= job.max_retries
       THEN [job EXCEPT !.attempts = attempts,
                        !.updated_at = now1,
                        !.last_error = error_message,
                        !.state = DEAD,
                        !.next_run_at = NullTime]
       ELSE [job EXCEPT !.attempts = attempts,
                        !.updated_at = now1,
                        !.last_error = error_message,
                        !.state = FAILED,
                        !.next_run_at =
                           now2 + compute_backoff(ConfigBackoffBase, attempts)]

\* worker_main, exit_code # 0 -> QueueEngine.fail_job, for reports made up to
\* the second `latest`
fail_job_by(w, latest) ==
  /\ wpc[w] = "run"
  /\ \E error_message \in Messages, now2 \in {clock, clock + 1} :
       /\ now2 <= latest
       /\ LET job == FailedJob(wjob[w], error_message, clock, now2)
          IN /\ now2 # clock => job.state = FAILED
             /\ jobs' = update_job(jobs, job)
             /\ nfail' = [nfail EXCEPT ![job.id] = @ + 1]
             /\ returns' = [returns EXCEPT ![job.id] = 0]
             /\ last' = Event("fail", TRUE, job.id, NoReq, error_message)
       /\ clock' = now2
  /\ wjob' = [wjob EXCEPT ![w] = NoJob]
  /\ wpc' = [wpc EXCEPT ![w] = "poll"]
  /\ UNCHANGED <<wnow, opc, ojob>>
  /\ UNCHANGED stopvars
  /\ UNCHANGED <<backoff_call, wres>>
  /\ UNCHANGED acquired

fail_job(w) == fail_job_by(w, MaxClock)

\* ------------------------------------------------- worker.py, error paths
\* a store operation may raise (sqlite3.OperationalError: the database is
\* locked, the disk is full); the statement then has changed no row.  An
\* exception raised inside worker_main's inner try reaches its handler, one
\* raised anywhere else in the loop ends the process through the finally.

\* worker_main's handler: msg = f"Worker exception: {e}\n{tb}"
WorkerException == "Worker exception"

\* JobStorage.acquire_due_job raises: ROLLBACK, and worker_main ends
acquire_due_job_raises(w) ==
  /\ wpc[w] = "acquire"
  /\ wpc' = [wpc EXCEPT ![w] = "exited"]
  /\ wnow' = [wnow EXCEPT ![w] = 0]
  /\ UNCHANGED <<jobs, clock, wjob, opc, ojob, returns, nfail, last>>
  /\ UNCHANGED stopvars
  /\ UNCHANGED <<backoff_call, wres>>
  /\ UNCHANGED acquired

\* executor.run_job raises (the log file cannot be written)
run_job_raises(w) ==
  /\ wpc[w] = "run"
  /\ wpc' = [wpc EXCEPT ![w] = "except"]
  /\ UNCHANGED <<jobs, clock, wnow, wjob, opc, ojob, returns, nfail, last>>
  /\ UNCHANGED stopvars
  /\ UNCHANGED <<backoff_call, wres>>
  /\ UNCHANGED acquired

\* exit_code = 0 and complete_job's update_job raises: the Job object has been
\* changed, the row has not
complete_job_raises(w) ==
  /\ wpc[w] = "run"
  /\ wjob' = [wjob EXCEPT
               ![w] = CompletedJob(wjob[w], log_path(wjob[w].id), clock)]
  /\ wpc' = [wpc EXCEPT ![w] = "except"]
  /\ last' = Event("complete", FALSE, wjob[w].id, NoReq, NullText)
  /\ UNCHANGED <<jobs, clock, wnow, opc, ojob, returns, nfail>>
  /\ UNCHANGED stopvars
  /\ UNCHANGED <<backoff_call, wres>>
  /\ UNCHANGED acquired

\* exit_code # 0 and fail_job's update_job raises: the Job object has been
\* changed (attempts += 1), the row has not
fail_job_raises(w) ==
  /\ wpc[w] = "run"
  /\ \E error_message \in Messages :
       /\ wjob' = [wjob EXCEPT
                    ![w] = FailedJob(wjob[w], error_message, clock, clock)]
       /\ last' = Event("fail", FALSE, wjob[w].id, NoReq, error_message)
  /\ wpc' = [wpc EXCEPT ![w] = "except"]
  /\ UNCHANGED <<jobs, clock, wnow, opc, ojob, returns, nfail>>
  /\ UNCHANGED stopvars
  /\ UNCHANGED <<backoff_call, wres>>
  /\ UNCHANGED acquired

\* a handler that logs the exception and goes on with the loop
handler_drops_job(w) ==
  /\ wpc[w] = "except"
  /\ wjob' = [wjob EXCEPT ![w] = NoJob]
  /\ wpc' = [wpc EXCEPT ![w] = "poll"]
  /\ last' = Event("fail", FALSE, wjob[w].id, NoReq, WorkerException)
  /\ UNCHANGED <<jobs, clock, wnow, opc, ojob, returns, nfail>>
  /\ UNCHANGED stopvars
  /\ UNCHANGED <<backoff_call, wres>>
  /\ UNCHANGED acquired

\* worker_main, except Exception: engine.fail_job(job, msg) on the Job object
\* as the failed call left it
handler_fail_job(w) ==
  /\ wpc[w] = "except"
  /\ \E now2 \in {clock, clock + 1} :
       /\ now2 <= MaxClock
       /\ LET job == FailedJob(wjob[w], WorkerException, clock, now2)
          IN /\ now2 # clock => job.state = FAILED
             /\ jobs' = update_job(jobs, job)
             /\ nfail' = [nfail EXCEPT ![job.id] = @ + 1]
             /\ returns' = [returns EXCEPT ![job.id] = 0]
             /\ last' = Event("fail", TRUE, job.id, NoReq, WorkerException)
       /\ clock' = now2
  /\ wjob' = [wjob EXCEPT ![w] = NoJob]
  /\ wpc' = [wpc EXCEPT ![w] = "poll"]
  /\ UNCHANGED <<wnow, opc, ojob>>
  /\ UNCHANGED stopvars
  /\ UNCHANGED <<backoff_call, wres>>
  /\ UNCHANGED acquired

\* the handler's fail_job raises as well: the exception leaves the loop and
\* worker_main ends, the job it holds still PROCESSING
handler_fail_job_raises(w) ==
  /\ wpc[w] = "except"
  /\ wjob' = [wjob EXCEPT
               ![w] = FailedJob(wjob[w], WorkerException, clock, clock)]
  /\ wpc' = [wpc EXCEPT ![w] = "exited"]
  /\ last' = Event("fail", FALSE, wjob[w].id, NoReq, WorkerException)
  /\ UNCHANGED <<jobs, clock, wnow, opc, ojob, returns, nfail>>
  /\ UNCHANGED stopvars
  /\ UNCHANGED <<backoff_call, wres>>
  /\ UNCHANGED acquired

\* ------------------------------------------ worker.py, the executor's result
\* the same loop with run_job's return and the report that follows it as two
\* steps

\* result = run_job(job, timeout=config.job_timeout)
run_job(w) ==
  /\ wpc[w] = "run"
  /\ \E result \in RunResults : wres' = [wres EXCEPT ![w] = result]
  /\ wpc' = [wpc EXCEPT ![w] = "ran"]
  /\ UNCHANGED <<jobs, clock, wnow, wjob, opc, ojob, returns, nfail, last>>
  /\ UNCHANGED stopvars
  /\ UNCHANGED backoff_call
  /\ UNCHANGED acquired

\* if result.exit_code == 0: complete_job(job, result.output_log_path)
\* else: fail_job(job, result.error_message or "Unknown error")
ReportedJob(job, result, now1, now2) ==
  IF result.exit_code = 0
    THEN CompletedJob(job, log_path(job.id), now1)
    ELSE FailedJob(job,
                   IF result.error_message = NullText THEN "Unknown error"
                   ELSE result.error_message,
                   now1, now2)

\* the Event of the engine call that wrote, or failed to write, that object
ReportEvent(job, ok) ==
  Event(IF job.state = COMPLETED THEN "complete" ELSE "fail", ok, job.id,
        NoReq, job.last_error)

\* the report goes through
report_result(w) ==
  /\ wpc[w] = "ran"
  /\ \E now2 \in {clock, clock + 1} :
       /\ now2 <= MaxClock
       /\ LET job == ReportedJob(wjob[w], wres[w], clock, now2)
          IN /\ now2 # clock => job.state = FAILED
             /\ jobs' = update_job(jobs, job)
             /\ IF job.state = COMPLETED
                  THEN UNCHANGED <<nfail, returns>>
                  ELSE /\ nfail' = [nfail EXCEPT ![job.id] = @ + 1]
                       /\ returns' = [returns EXCEPT ![job.id] = 0]
             /\ last' = ReportEvent(job, TRUE)
       /\ clock' = now2
  /\ wjob' = [wjob EXCEPT ![w] = NoJob]
  /\ wres' = [wres EXCEPT ![w] = NoResult]
  /\ wpc' = [wpc EXCEPT ![w] = "poll"]
  /\ UNCHANGED <<wnow, opc, ojob>>
  /\ UNCHANGED stopvars
  /\ UNCHANGED backoff_call
  /\ UNCHANGED acquired

\* the report's update_job raises: the Job object has been changed, the row
\* has not, and the exception reaches worker_main's handler
report_result_raises(w) ==
  /\ wpc[w] = "ran"
  /\ LET job == ReportedJob(wjob[w], wres[w], clock, clock)
     IN /\ wjob' = [wjob EXCEPT ![w] = job]
        /\ last' = ReportEvent(job, FALSE)
  /\ wres' = [wres EXCEPT ![w] = NoResult]
  /\ wpc' = [wpc EXCEPT ![w] = "except"]
  /\ UNCHANGED <<jobs, clock, wnow, opc, ojob, returns, nfail>>
  /\ UNCHANGED stopvars
  /\ UNCHANGED backoff_call
  /\ UNCHANGED acquired

\* --------------------------------------------------- worker.py, shutdown
\* a loop that also leaves while a job is running
worker_aborts(w) ==
  /\ wpc[w] \in {"poll", "run"}
  /\ StopSeen(w)
  /\ wpc' = [wpc EXCEPT ![w] = "exited"]
  /\ UNCHANGED <<jobs, clock, wnow, wjob, opc, ojob, returns, nfail, last>>
  /\ UNCHANGED stopvars
  /\ UNCHANGED <<backoff_call, wres>>
  /\ UNCHANGED acquired

\* worker_main: the stop check at the top of the loop succeeds, break, and the
\* finally removes the PID file
worker_exit(w) ==
  /\ wpc[w] = "poll"
  /\ StopSeen(w)
  /\ wpc' = [wpc EXCEPT ![w] = "exited"]
  /\ UNCHANGED <<jobs, clock, wnow, wjob, opc, ojob, returns, nfail, last>>
  /\ UNCHANGED stopvars
  /\ UNCHANGED <<backoff_call, wres>>
  /\ UNCHANGED acquired

\* _signal_handler: SIGINT or SIGTERM reaches worker w's process
signal_handler(w) ==
  /\ wpc[w] # "exited"
  /\ ~stopreq[w]
  /\ stopreq' = [stopreq EXCEPT ![w] = TRUE]
  /\ UNCHANGED <<jobs, clock, wpc, wnow, wjob, opc, ojob, stopflag, spc,
                 returns, nfail, last, backoff_call, wres, acquired>>

\* utils.list_worker_pid_files: registered at the start of worker_main,
\* removed in its finally
list_worker_pid_files == {w \in Workers : wpc[w] # "exited"}

\* the bounded wait (30 polls of one second; join(timeout=30.0)) runs out
\* with workers left: a worker that polls sees the flag within a second, so
\* the ones left are in the middle of a job (job_timeout is 60 seconds)
WaitElapsed ==
  /\ list_worker_pid_files # {}
  /\ \A w \in list_worker_pid_files : wpc[w] = "run"

\* stop_workers_command up to create_stop_flag; "No active workers found."
\* changes nothing
stop_workers_command ==
  /\ spc = "idle"
  /\ list_worker_pid_files # {}
  /\ stopflag' = TRUE
  /\ spc' = "waiting"
  /\ UNCHANGED <<jobs, clock, wpc, wnow, wjob, opc, ojob, stopreq,
                 returns, nfail, last, backoff_call, wres, acquired>>

\* stop_workers_command: the wait ends, with "All workers stopped." or with
\* "Workers are still shutting down. They will exit shortly.", and
\* clear_stop_flag
stop_workers_wait ==
  /\ spc = "waiting"
  /\ list_worker_pid_files = {} \/ WaitElapsed
  /\ stopflag' = FALSE
  /\ spc' = "idle"
  /\ UNCHANGED <<jobs, clock, wpc, wnow, wjob, opc, ojob, stopreq,
                 returns, nfail, last, backoff_call, wres, acquired>>

\* start_workers, except KeyboardInterrupt: create_stop_flag
start_workers_interrupt ==
  /\ spc = "idle"
  /\ list_worker_pid_files # {}
  /\ stopflag' = TRUE
  /\ spc' = "joining"
  /\ UNCHANGED <<jobs, clock, wpc, wnow, wjob, opc, ojob, stopreq,
                 returns, nfail, last, backoff_call, wres, acquired>>

\* start_workers: the joins return, every worker gone or the timeouts run
\* out, and clear_stop_flag
start_workers_join ==
  /\ spc = "joining"
  /\ list_worker_pid_files = {} \/ WaitElapsed
  /\ stopflag' = FALSE
  /\ spc' = "idle"
  /\ UNCHANGED <<jobs, clock, wpc, wnow, wjob, opc, ojob, stopreq,
                 returns, nfail, last, backoff_call, wres, acquired>>

\* dlq_retry without its "is not in DLQ" check
DlqRejectsMissing(job) == job = NoRow

\* QueueEngine.dlq_retry: "No job found" / "is not in DLQ"
DlqRejects(job) == job = NoRow \/ job.state # DEAD

\* QueueEngine.dlq_retry, first half: get_job and the two checks
dlq_retry_get(o) ==
  /\ opc[o] = "idle"
  /\ \E job_id \in Ids :
       LET job == get_job(jobs, job_id)
       IN IF DlqRejects(job)
            THEN /\ last' = Event("dlq_retry", FALSE, job_id, NoReq, NullText)
                 /\ UNCHANGED <<opc, ojob>>
            ELSE /\ ojob' = [ojob EXCEPT ![o] = job]
                 /\ opc' = [opc EXCEPT ![o] = "update"]
                 /\ UNCHANGED last
  /\ UNCHANGED <<jobs, clock, wpc, wnow, wjob, returns, nfail>>
  /\ UNCHANGED stopvars
  /\ UNCHANGED <<backoff_call, wres>>
  /\ UNCHANGED acquired

\* dlq_retry that keeps the spent attempts
RequeuedJobKeepsAttempts(job, now) ==
  [job EXCEPT !.state = PENDING,
              !.updated_at = now,
              !.next_run_at = now,
              !.last_error = NullText]

\* dlq_retry that starts the job over as a new one
RequeuedJobAsNew(job, now) ==
  [job EXCEPT !.state = PENDING,
              !.attempts = 0,
              !.max_retries = ConfigMaxRetries,
              !.created_at = now,
              !.updated_at = now,
              !.next_run_at = now,
              !.last_error = NullText]

\* QueueEngine.dlq_retry: the Job object it writes back
RequeuedJob(job, now) ==
  [job EXCEPT !.state = PENDING,
              !.attempts = 0,
              !.updated_at = now,
              !.next_run_at = now,
              !.last_error = NullText]

\* QueueEngine.dlq_retry, second half: reset the Job object and update_job
dlq_retry_update(o) ==
  /\ opc[o] = "update"
  /\ LET job == RequeuedJob(ojob[o], clock)
     IN /\ jobs' = update_job(jobs, job)
        /\ nfail' = [nfail EXCEPT ![job.id] = 0]
        /\ acquired' = [acquired EXCEPT ![job.id] = 0]
        /\ last' = Event("dlq_retry", TRUE, job.id, NoReq, NullText)
  /\ ojob' = [ojob EXCEPT ![o] = NoJob]
  /\ opc' = [opc EXCEPT ![o] = "idle"]
  /\ UNCHANGED <<clock, wpc, wnow, wjob, returns>>
  /\ UNCHANGED stopvars
  /\ UNCHANGED <<backoff_call, wres>>

\* JobStorage.list_jobs(): SELECT * FROM jobs ORDER BY created_at, one snapshot
list_jobs(tbl) == {tbl[i] : i \in {k \in Ids : tbl[k] # NoRow}}

\* JobStorage.counts_by_state: 0 for each state, then SELECT state, COUNT(*)
\* FROM jobs GROUP BY state
counts_by_state(tbl) ==
  [s \in JobState |->
     Cardinality({i \in Ids : tbl[i] # NoRow /\ tbl[i].state = s})]

\* QueueEngine.status: counts.get(state, 0) for each JobState
status(tbl) == [s \in JobState |-> counts_by_state(tbl)[s]]

\* Python's n / d on two integers, kept as the fraction
Ratio(n, d) == [num |-> n, den |-> d]

\* sum(f(j) for j in lst) over a list of rows (the rows differ by their id)
RECURSIVE SumOver(_, _)
SumOver(lst, field) ==
  IF lst = {} THEN 0
  ELSE LET j == CHOOSE x \in lst : TRUE
       IN (IF field = "attempts" THEN j.attempts
           ELSE j.updated_at - j.created_at) + SumOver(lst \ {j}, field)

\* avg_attempts / avg_duration: sum(...) / len(lst) if lst else 0.0
Average(lst, field) ==
  IF lst # {} THEN Ratio(SumOver(lst, field), Cardinality(lst)) ELSE Ratio(0, 1)

\* metrics() with the success rate taken over the finished jobs only
metrics_of_finished(tbl) ==
  LET all == list_jobs(tbl)
      by_state == [s \in JobState |-> {j \in all : j.state = s}]
      finished == by_state[COMPLETED] \cup by_state[DEAD]
  IN [total_jobs |-> Cardinality(all),
      by_state |-> [s \in JobState |-> Cardinality(by_state[s])],
      success_rate |-> IF finished # {}
                       THEN Ratio(Cardinality(by_state[COMPLETED]),
                                  Cardinality(finished))
                       ELSE Ratio(0, 1),
      avg_attempts_completed |-> Average(by_state[COMPLETED], "attempts"),
      avg_attempts_dead |-> Average(by_state[DEAD], "attempts"),
      avg_duration_completed_seconds |->
        Average(by_state[COMPLETED], "duration")]

\* QueueEngine.metrics: one list_jobs() call, grouped and averaged in Python
metrics(tbl) ==
  LET all == list_jobs(tbl)
      total == Cardinality(all)
      by_state == [s \in JobState |-> {j \in all : j.state = s}]
  IN [total_jobs |-> total,
      by_state |-> [s \in JobState |-> Cardinality(by_state[s])],
      success_rate |-> IF total # 0
                       THEN Ratio(Cardinality(by_state[COMPLETED]), total)
                       ELSE Ratio(0, 1),
      avg_attempts_completed |-> Average(by_state[COMPLETED], "attempts"),
      avg_attempts_dead |-> Average(by_state[DEAD], "attempts"),
      avg_duration_completed_seconds |->
        Average(by_state[COMPLETED], "duration")]

\* a process constructs JobStorage and QueueEngine on the database file
JobStorage_init ==
  /\ jobs' = init_db(jobs)
  /\ last' = Event("restart", TRUE, NoId, NoReq, NullText)
  /\ UNCHANGED <<clock, wpc, wnow, wjob, opc, ojob, returns, nfail>>
  /\ UNCHANGED stopvars
  /\ UNCHANGED <<backoff_call, wres>>
  /\ UNCHANGED acquired

\* the wall clock reaches the next second
Tick ==
  /\ clock < MaxClock
  /\ clock' = clock + 1
  /\ UNCHANGED <<jobs, wpc, wnow, wjob, opc, ojob, returns, nfail, last>>
  /\ UNCHANGED stopvars
  /\ UNCHANGED <<backoff_call, wres>>
  /\ UNCHANGED acquired

\* the last second the clock is followed to: a backoff that a first failure
\* started at MaxClock has ended by then
Horizon == MaxClock + compute_backoff(ConfigBackoffBase, 1)

\* the wall clock goes on after the last second a report is made in
TickOn ==
  /\ clock >= MaxClock
  /\ clock < Horizon
  /\ clock' = clock + 1
  /\ UNCHANGED <<jobs, wpc, wnow, wjob, opc, ojob, returns, nfail, last>>
  /\ UNCHANGED stopvars
  /\ UNCHANGED <<backoff_call, wres>>
  /\ UNCHANGED acquired

Init ==
  /\ jobs = init_db(NoTable)
  /\ clock = 0
  /\ wpc = [w \in Workers |-> "poll"]
  /\ wnow = [w \in Workers |-> 0]
  /\ wjob = [w \in Workers |-> NoJob]
  /\ wres = [w \in Workers |-> NoResult]
  /\ opc = [o \in Operators |-> "idle"]
  /\ ojob = [o \in Operators |-> NoJob]
  /\ stopflag = FALSE
  /\ stopreq = [w \in Workers |-> FALSE]
  /\ spc = "idle"
  /\ returns = [i \in Ids |-> 0]
  /\ acquired = [i \in Ids |-> 0]
  /\ nfail = [i \in Ids |-> 0]
  /\ last = Event("init", TRUE, NoId, NoReq, NullText)
  /\ backoff_call = NoCall

AcquireNow == \E w \in Workers : acquire_job_for_worker(w)
AcquireDue == \E w \in Workers : acquire_due_job(w)
Complete == \E w \in Workers : complete_job(w)
Fail == \E w \in Workers : fail_job(w)
DlqRetryGet == \E o \in Operators : dlq_retry_get(o)
DlqRetryUpdate == \E o \in Operators : dlq_retry_update(o)

Next ==
  \/ Submit
  \/ AcquireNow
  \/ AcquireDue
  \/ Complete
  \/ Fail
  \/ DlqRetryGet
  \/ DlqRetryUpdate
  \/ Tick

Spec == Init /\ [][Next]_vars

\* workers and submitters only: no dlq_retry is issued
NextWorkers ==
  \/ SubmitBudget
  \/ AcquireNow
  \/ AcquireDue
  \/ Complete
  \/ Fail
  \/ Tick

SpecWorkers == Init /\ [][NextWorkers]_vars

AcquireRaises == \E w \in Workers : acquire_due_job_raises(w)
RunRaises == \E w \in Workers : run_job_raises(w)
CompleteRaises == \E w \in Workers : complete_job_raises(w)
FailRaises == \E w \in Workers : fail_job_raises(w)
HandlerFail == \E w \in Workers : handler_fail_job(w)
HandlerFailRaises == \E w \in Workers : handler_fail_job_raises(w)

\* the workers with a store and an executor that may raise
NextFaults ==
  \/ SubmitNow
  \/ AcquireNow
  \/ AcquireDue
  \/ AcquireRaises
  \/ Complete
  \/ Fail
  \/ RunRaises
  \/ CompleteRaises
  \/ FailRaises
  \/ HandlerFail
  \/ HandlerFailRaises
  \/ Tick

SpecFaults == Init /\ [][NextFaults]_vars

WorkerExit == \E w \in Workers : worker_exit(w)
Signal == \E w \in Workers : signal_handler(w)

\* the workers and the commands that stop them
NextStop ==
  \/ SubmitNow
  \/ AcquireNow
  \/ AcquireDue
  \/ Complete
  \/ Fail
  \/ WorkerExit
  \/ Signal
  \/ stop_workers_command
  \/ stop_workers_wait
  \/ start_workers_interrupt
  \/ start_workers_join
  \/ Tick

SpecStop == Init /\ [][NextStop]_vars

\* one iteration step of worker w's loop
WorkerStep(w) ==
  \/ acquire_job_for_worker(w)
  \/ acquire_due_job(w)
  \/ complete_job(w)
  \/ fail_job(w)
  \/ worker_exit(w)

\* every worker process keeps being scheduled and every command it runs ends
\* (run_job's timeout); the stop commands go on to the end of their wait
StopFairness ==
  /\ \A w \in Workers : WF_vars(WorkerStep(w))
  /\ WF_vars(stop_workers_wait)
  /\ WF_vars(start_workers_join)

SpecStopFair == Init /\ [][NextStop]_vars /\ StopFairness

\* JobStorage.acquire_due_job's UPDATE applied to a row
AcquiredRow(row, now_iso) ==
  [row EXCEPT !.state = PROCESSING, !.updated_at = now_iso]

\* the rows a stored job with id i can be: submitted at t, then untouched, or
\* acquired, or acquired and reported once or twice, the last of it at u
BacklogRows(i) ==
  LET new == {NewJob(req, i, t) :
                req \in {r \in LifecycleRequests : r.id = i}, t \in 0..MaxClock}
      held == {AcquiredRow(row, u) : row \in new, u \in 0..MaxClock}
      held1 == {h \in held : h.updated_at >= h.next_run_at}
      done == {CompletedJob(h, log_path(i), h.updated_at) : h \in held1}
      failed == UNION {{FailedJob(h, m, h.updated_at, h.updated_at) :
                          m \in Messages} : h \in held1}
      held2 == {AcquiredRow(f, f.next_run_at) :
                  f \in {x \in failed : x.next_run_at <= MaxClock}}
      dead == UNION {{FailedJob(h, m, h.updated_at, h.updated_at) :
                        m \in Messages} : h \in held2}
  IN new \cup held1 \cup done \cup failed \cup held2 \cup dead

\* a store with a backlog, and callers that have not called yet
InitBacklog ==
  /\ jobs \in [Ids -> {NoRow} \cup UNION {BacklogRows(i) : i \in Ids}]
  /\ \A i \in Ids : jobs[i] # NoRow => jobs[i].id = i
  /\ clock \in 0..MaxClock
  /\ \A i \in Ids : jobs[i] # NoRow => jobs[i].updated_at <= clock
  /\ wpc = [w \in Workers |-> "poll"]
  /\ wnow = [w \in Workers |-> 0]
  /\ wjob = [w \in Workers |-> NoJob]
  /\ wres = [w \in Workers |-> NoResult]
  /\ opc = [o \in Operators |-> "idle"]
  /\ ojob = [o \in Operators |-> NoJob]
  /\ stopflag = FALSE
  /\ stopreq = [w \in Workers |-> FALSE]
  /\ spc = "idle"
  /\ returns = [i \in Ids |-> 0]
  /\ acquired = [i \in Ids |-> 0]
  /\ nfail = [i \in Ids |-> IF jobs[i] = NoRow THEN 0 ELSE jobs[i].attempts]
  /\ last = Event("init", TRUE, NoId, NoReq, NullText)
  /\ backoff_call = NoCall

AcquireOnce == \E w \in Workers : acquire_once(w)

\* callers that each invoke acquire once, and nothing else
NextAcquire ==
  \/ AcquireNow
  \/ AcquireOnce

SpecAcquire == InitBacklog /\ [][NextAcquire]_vars

\* the workers, with processes that open the store anew at any time
NextRestart ==
  \/ Submit
  \/ AcquireNow
  \/ AcquireDue
  \/ Complete
  \/ Fail
  \/ JobStorage_init
  \/ Tick

SpecRestart == Init /\ [][NextRestart]_vars

\* the submission entry points alone
NextSubmit ==
  \/ SubmitAny
  \/ Tick

SpecSubmit == Init /\ [][NextSubmit]_vars

\* a caller of the engine reports the outcome of a Job object whose id the
\* store has no row for (the object outlived its database file, or the caller
\* built it): QueueEngine.complete_job or fail_job, down to update_job
report_unstored ==
  \E req \in ImmediateRequests, done \in BOOLEAN, error_message \in Messages :
    /\ jobs[req.id] = NoRow
    /\ LET held == AcquiredRow(NewJob(req, req.id, clock), clock)
           job == IF done THEN CompletedJob(held, log_path(held.id), clock)
                  ELSE FailedJob(held, error_message, clock, clock)
       IN /\ jobs' = update_job(jobs, job)
          /\ last' = Event(IF done THEN "complete" ELSE "fail",
                           ~update_job_rejects(jobs, job), job.id, NoReq,
                           IF done THEN NullText ELSE error_message)
    /\ UNCHANGED <<clock, wpc, wnow, wjob, opc, ojob, returns, nfail>>
    /\ UNCHANGED stopvars
    /\ UNCHANGED <<backoff_call, wres>>
    /\ UNCHANGED acquired

\* the workers, and callers that report on jobs the store does not have
NextUnstored ==
  \/ SubmitNow
  \/ AcquireNow
  \/ AcquireDue
  \/ Complete
  \/ Fail
  \/ report_unstored
  \/ Tick

SpecUnstored == Init /\ [][NextUnstored]_vars

\* every operation on jobs, on jobs that differ in what they were submitted with
NextFrame ==
  \/ SubmitFrame
  \/ AcquireNow
  \/ AcquireDue
  \/ Complete
  \/ Fail
  \/ DlqRetryGet
  \/ DlqRetryUpdate
  \/ Tick

SpecFrame == Init /\ [][NextFrame]_vars

\* the workers, with clients that schedule the first run themselves
NextRunAt ==
  \/ SubmitScheduled
  \/ AcquireNow
  \/ AcquireDue
  \/ Complete
  \/ Fail
  \/ Tick

SpecRunAt == Init /\ [][NextRunAt]_vars

\* a caller is about to call compute_backoff with integers of either sign
InitBackoff ==
  /\ jobs = init_db(NoTable)
  /\ clock = 0
  /\ wpc = [w \in Workers |-> "poll"]
  /\ wnow = [w \in Workers |-> 0]
  /\ wjob = [w \in Workers |-> NoJob]
  /\ wres = [w \in Workers |-> NoResult]
  /\ opc = [o \in Operators |-> "idle"]
  /\ ojob = [o \in Operators |-> NoJob]
  /\ stopflag = FALSE
  /\ stopreq = [w \in Workers |-> FALSE]
  /\ spc = "idle"
  /\ returns = [i \in Ids |-> 0]
  /\ acquired = [i \in Ids |-> 0]
  /\ nfail = [i \in Ids |-> 0]
  /\ last = Event("init", TRUE, NoId, NoReq, NullText)
  /\ backoff_call \in [base : -MaxBase..MaxBase,
                       attempts : -MaxAttempts..MaxAttempts,
                       done : {FALSE},
                       result : {0}]

\* the call returns
compute_backoff_returns ==
  /\ ~backoff_call.done
  /\ backoff_call' =
       [backoff_call EXCEPT
          !.done = TRUE,
          !.result = compute_backoff(backoff_call.base, backoff_call.attempts)]
  /\ UNCHANGED <<jobs, clock, wpc, wnow, wjob, wres, opc, ojob, returns, nfail,
                 acquired, last>>
  /\ UNCHANGED stopvars

SpecBackoff == InitBackoff /\ [][compute_backoff_returns]_vars

\* the worker process is killed where it stands (SIGKILL, power loss): no
\* except and no finally runs, the Job object is gone with the process, its
\* pid file stays
worker_crash(w) ==
  /\ wpc[w] \in {"poll", "acquire", "run"}
  /\ wpc' = [wpc EXCEPT ![w] = "crashed"]
  /\ UNCHANGED <<jobs, clock, wnow, wjob, opc, ojob, returns, nfail, last>>
  /\ UNCHANGED stopvars
  /\ UNCHANGED <<backoff_call, wres>>
  /\ UNCHANGED acquired

Crash == \E w \in Workers : worker_crash(w)

\* the workers, any of which may be killed, and the operators of the dead
\* letter queue
NextCrash ==
  \/ SubmitNow
  \/ AcquireNow
  \/ AcquireDue
  \/ Complete
  \/ Fail
  \/ Crash
  \/ DlqRetryGet
  \/ DlqRetryUpdate
  \/ Tick

SpecCrash == Init /\ [][NextCrash]_vars

RunJob == \E w \in Workers : run_job(w)
ReportResult == \E w \in Workers : report_result(w)
ReportResultRaises == \E w \in Workers : report_result_raises(w)

\* the workers seen with the executor's result, the store and the executor
\* free to raise
NextReport ==
  \/ SubmitNow
  \/ AcquireNow
  \/ AcquireDue
  \/ RunJob
  \/ RunRaises
  \/ ReportResult
  \/ ReportResultRaises
  \/ HandlerFail
  \/ HandlerFailRaises
  \/ Tick

SpecReport == Init /\ [][NextReport]_vars

\* one job and every operation on it, followed until its backoffs have run out
SubmitFirst ==
  \E req \in ImmediateRequests : req.id = 1 /\ enqueue_job_from_json(req)

NextLate ==
  \/ SubmitFirst
  \/ AcquireNow
  \/ AcquireDue
  \/ Complete
  \/ Fail
  \/ DlqRetryGet
  \/ DlqRetryUpdate
  \/ Tick
  \/ TickOn

SpecLate == Init /\ [][NextLate]_vars

\* the workers and the submitters, followed until the backoffs have run out
NextLive ==
  \/ SubmitNow
  \/ AcquireNow
  \/ AcquireDue
  \/ Complete
  \/ Fail
  \/ Tick
  \/ TickOn

\* one job with or without a retry budget, and every operation on it, followed
\* until the backoff of a report made at Horizon has run out
SubmitBudgeted == \E req \in BudgetRequests : enqueue_job_from_json(req)

FailLate == \E w \in Workers : fail_job_by(w, Horizon)

LateHorizon == Horizon + compute_backoff(ConfigBackoffBase, 1)

TickLate ==
  /\ clock >= Horizon
  /\ clock < LateHorizon
  /\ clock' = clock + 1
  /\ UNCHANGED <<jobs, wpc, wnow, wjob, opc, ojob, returns, nfail, last>>
  /\ UNCHANGED stopvars
  /\ UNCHANGED <<backoff_call, wres>>
  /\ UNCHANGED acquired

NextBudget ==
  \/ SubmitBudgeted
  \/ AcquireNow
  \/ AcquireDue
  \/ Complete
  \/ FailLate
  \/ DlqRetryGet
  \/ DlqRetryUpdate
  \/ Tick
  \/ TickOn
  \/ TickLate

SpecBudget == Init /\ [][NextBudget]_vars

\* the first worker keeps running its loop and is never stopped; a command
\* that any worker runs ends (run_job's timeout) and its outcome is reported,
\* no worker being killed and no store operation raising; the clock goes on
LiveFairness ==
  /\ WF_vars(WorkerStep(1))
  /\ \A w \in Workers : WF_vars(complete_job(w) \/ fail_job(w))
  /\ WF_vars(Tick)
  /\ WF_vars(TickOn)

SpecLive == Init /\ [][NextLive]_vars /\ LiveFairness

\* ------------------------------------------------------------------ claims
Stored == {i \in Ids : jobs[i] # NoRow}

\* worker w's acquire call returns a job in this step
AcquireReturns(w) == wpc[w] = "acquire" /\ wpc'[w] = "run"

\* the row is PENDING or FAILED and due at the given time
Due(row, now) ==
  /\ row.state \in {PENDING, FAILED}
  /\ row.next_run_at # NullTime
  /\ row.next_run_at <= now

\* C1: among workers that only acquire, complete and fail, a job is returned by
\* at most one acquire until a fail report on it makes it eligible again
C1_ReturnedOnce == \A i \in Ids : returns[i] <= 1

\* a job that failed once is held again while the other worker is inside its
\* own acquire call
C1_Witness ==
  \E i \in Stored, w \in Workers :
    /\ jobs[i].state = PROCESSING
    /\ jobs[i].attempts >= 1
    /\ returns[i] = 1
    /\ wpc[w] = "acquire"

\* C2: a job is held by at most one worker at a time, whatever submit,
\* acquire, complete, fail and dlq_retry calls interleave
C2_SingleHolder ==
  \A w1, w2 \in Workers :
    (w1 # w2 /\ wpc[w1] = "run" /\ wpc[w2] = "run") => wjob[w1].id # wjob[w2].id

\* C3: the job an acquire returns was PENDING or FAILED with next_run_at <= the
\* call's now immediately before the call's transaction
C3_ReturnsOnlyDue ==
  [][\A w \in Workers :
       AcquireReturns(w) =>
         LET id == wjob'[w].id
         IN /\ id \in Stored
            /\ Due(jobs[id], wnow[w])
            /\ jobs'[id].state = PROCESSING]_vars

\* an acquire has returned a job while another PENDING or FAILED job, not yet
\* due at the call's now, stays behind
C3_Witness ==
  \E w \in Workers, k \in Stored :
    /\ wpc[w] = "run"
    /\ last.op = "acquire" /\ last.ok /\ last.id = wjob[w].id
    /\ jobs[k].state \in {PENDING, FAILED}
    /\ jobs[k].next_run_at > wjob[w].updated_at

\* C4: the job an acquire returns has the smallest created_at among the jobs
\* due at the call's now
C4_OldestFirst ==
  [][\A w \in Workers :
       AcquireReturns(w) =>
         \A k \in Stored :
           Due(jobs[k], wnow[w]) =>
             jobs[wjob'[w].id].created_at <= jobs[k].created_at]_vars

\* an acquire has returned the older of two jobs that were both due
C4_Witness ==
  \E w \in Workers, k \in Stored :
    /\ wpc[w] = "run"
    /\ last.op = "acquire" /\ last.ok /\ last.id = wjob[w].id
    /\ Due(jobs[k], wjob[w].updated_at)
    /\ jobs[k].created_at > wjob[w].created_at

\* C5: after the Kth fail report on a job of budget R, the row is FAILED with
\* attempts = K and next_run_at = updated_at + backoff_base^K when K < R, DEAD
\* with next_run_at null when K >= R, and last_error is the reported message
C5_KthFailure ==
  (last.op = "fail" /\ last.id \in Stored) =>
    LET row == jobs[last.id]
        K == nfail[last.id]
    IN /\ row.last_error = last.msg
       /\ IF K < row.max_retries
            THEN /\ row.state = FAILED
                 /\ row.attempts = K
                 /\ row.next_run_at = row.updated_at + Pow(ConfigBackoffBase, K)
            ELSE /\ row.state = DEAD
                 /\ row.next_run_at = NullTime

\* C6: a DEAD job has attempts >= max_retries and a FAILED job has
\* 1 <= attempts < max_retries
C6_DeadOnlyWhenSpent ==
  \A i \in Stored :
    /\ jobs[i].state = DEAD => jobs[i].attempts >= jobs[i].max_retries
    /\ jobs[i].state = FAILED =>
         (1 <= jobs[i].attempts /\ jobs[i].attempts < jobs[i].max_retries)

\* one job is in backoff after a failure while another has spent its budget
C6_Witness ==
  \E i, k \in Stored :
    /\ jobs[i].state = FAILED /\ jobs[i].attempts = 1
    /\ jobs[k].state = DEAD /\ jobs[k].attempts = jobs[k].max_retries

\* a submission was accepted in this step
Accepted == last'.op = "submit" /\ last'.ok /\ jobs' # jobs

\* the supplied run_at and a stored timestamp, both in milliseconds
RunAtMillis(run_at) == run_at.sec * 1000 + run_at.frac
Millis(t) == t * 1000

\* what every accepted submission does besides scheduling: one new PENDING row
\* with attempts = 0 and created_at = updated_at = now, no other row touched
NewRowOnly ==
  LET id == last'.id
  IN /\ jobs[id] = NoRow
     /\ \A k \in Ids \ {id} : jobs'[k] = jobs[k]
     /\ jobs'[id].state = PENDING
     /\ jobs'[id].attempts = 0
     /\ jobs'[id].created_at = clock
     /\ jobs'[id].updated_at = clock

\* C7 as stated: next_run_at is the explicit run_at when one was supplied,
\* now + delay when only a delay was, now when neither was
C7_AsStated ==
  [][Accepted =>
       LET req == last'.req
           row == jobs'[last'.id]
       IN /\ NewRowOnly
          /\ req.run_at.kind # "none" =>
               Millis(row.next_run_at) = RunAtMillis(req.run_at)
          /\ (req.run_at.kind = "none" /\ req.delay # Absent) =>
               row.next_run_at = clock + req.delay
          /\ (req.run_at.kind = "none" /\ req.delay = Absent) =>
               row.next_run_at = clock]_vars

\* C7: every accepted submission creates exactly one PENDING row with
\* attempts = 0 and created_at = updated_at = now; its next_run_at is the
\* explicit run_at cut to whole seconds when one was supplied, now + delay when
\* only a delay was, now when neither was; and a submission with a non-empty
\* command is refused only for an unparseable run_at, for --run-at with --delay
\* on the flags path, or for an id that already has a row
C7_Submission ==
  [][/\ Accepted =>
          LET req == last'.req
              row == jobs'[last'.id]
          IN /\ NewRowOnly
             /\ req.run_at.kind # "none" =>
                  Millis(row.next_run_at) =
                    RunAtMillis(req.run_at) - (RunAtMillis(req.run_at) % 1000)
             /\ (req.run_at.kind = "none" /\ req.delay # Absent) =>
                  row.next_run_at = clock + req.delay
             /\ (req.run_at.kind = "none" /\ req.delay = Absent) =>
                  row.next_run_at = clock
     /\ (last'.op = "submit" /\ ~last'.ok /\ last' # last) =>
          LET req == last'.req
          IN /\ jobs' = jobs
             /\ \/ req.command = ""
                \/ req.run_at.kind = "bad"
                \/ (req.path = "flags" /\ req.run_at.kind # "none"
                      /\ req.delay # Absent)
                \/ (req.id # NoId /\ jobs[req.id] # NoRow)]_vars

\* a submission with a run_at half a second past the second was accepted and
\* a delayed one is stored beside it
C7_Witness ==
  /\ last.op = "submit" /\ last.ok
  /\ last.req.run_at.kind = "ts" /\ last.req.run_at.frac # 0
  /\ jobs[last.id].next_run_at = last.req.run_at.sec
  /\ \E k \in Stored \ {last.id} :
       /\ jobs[k].state = PENDING
       /\ jobs[k].next_run_at = jobs[k].created_at + MaxDelay

\* C8: a submission that supplies both run_at and delay fails and creates no
\* row, on the JSON path and on the flags path
C8_BothRejected ==
  (last.op = "submit" /\ last.req.run_at.kind = "ts" /\ last.req.delay # Absent)
    => ~last.ok

\* operator o's dlq_retry writes the job back in this step
RequeueWrites(o) == opc[o] = "update" /\ opc'[o] = "idle"

\* a dlq_retry call ends with an error in this step
RequeueRefused == last'.op = "dlq_retry" /\ ~last'.ok /\ last' # last

\* C9: dlq_retry on a DEAD job succeeds and leaves it PENDING with attempts = 0,
\* last_error null and next_run_at = updated_at = now, due for the next
\* acquire; no other row changes
C9_Requeue ==
  [][/\ \A o \in Operators :
          RequeueWrites(o) =>
            LET id == ojob[o].id
            IN /\ jobs'[id].state = PENDING
               /\ jobs'[id].attempts = 0
               /\ jobs'[id].last_error = NullText
               /\ jobs'[id].next_run_at = clock
               /\ jobs'[id].updated_at = clock
               /\ Due(jobs'[id], clock')
               /\ \A k \in Ids \ {id} : jobs'[k] = jobs[k]
     /\ RequeueRefused =>
          (jobs[last'.id] = NoRow \/ jobs[last'.id].state # DEAD)]_vars

\* a job that spent its budget has just been requeued
C9_Witness ==
  /\ last.op = "dlq_retry" /\ last.ok
  /\ jobs[last.id].state = PENDING
  /\ jobs[last.id].attempts = 0
  /\ jobs[last.id].updated_at > jobs[last.id].created_at

\* C10: dlq_retry on an id without a row, or on a job that is not DEAD, ends
\* with an error and changes no row
C10_RequeueRefused ==
  [][/\ \A o \in Operators :
          (opc[o] = "idle" /\ opc'[o] = "update") =>
            /\ ojob'[o].id \in Stored
            /\ jobs[ojob'[o].id].state = DEAD
     /\ RequeueRefused => jobs' = jobs]_vars

\* a dlq_retry was refused for a job that a worker holds, while an id without
\* a row is there to be tried as well
C10_Witness ==
  /\ last.op = "dlq_retry" /\ ~last.ok
  /\ last.id \in Stored
  /\ jobs[last.id].state = PROCESSING
  /\ \E k \in Ids : jobs[k] = NoRow

\* C11: among workers that only acquire, complete and fail, reporting success
\* for an acquired job leaves its row COMPLETED with next_run_at null,
\* last_error null, output_log_path the reported output reference and attempts
\* as stored before the report; no other row changes
C11_Completed ==
  [][\A w \in Workers :
       (wpc[w] = "run" /\ wpc'[w] = "poll" /\ last'.op = "complete") =>
         LET id == wjob[w].id
         IN /\ jobs[id].state = PROCESSING
            /\ jobs'[id].state = COMPLETED
            /\ jobs'[id].next_run_at = NullTime
            /\ jobs'[id].last_error = NullText
            /\ jobs'[id].output_log_path = log_path(id)
            /\ jobs'[id].attempts = jobs[id].attempts
            /\ \A k \in Ids \ {id} : jobs'[k] = jobs[k]]_vars

\* success has just been reported for a job that had failed once before
C11_Witness ==
  /\ last.op = "complete"
  /\ jobs[last.id].state = COMPLETED
  /\ jobs[last.id].attempts = 1
  /\ jobs[last.id].last_error = NullText
  /\ jobs[last.id].output_log_path = log_path(last.id)

\* C12 as stated: next_run_at is non-null exactly when the job is PENDING or
\* FAILED
C12_AsStated ==
  \A i \in Stored :
    jobs[i].next_run_at # NullTime <=> jobs[i].state \in {PENDING, FAILED}

\* C12: a COMPLETED or DEAD job has next_run_at null; a PENDING or FAILED job
\* has it non-null, and so has a PROCESSING job, which keeps the value it was
\* acquired with
C12_NextRunAt ==
  \A i \in Stored :
    /\ jobs[i].state \in {COMPLETED, DEAD} => jobs[i].next_run_at = NullTime
    /\ jobs[i].state \in {PENDING, FAILED, PROCESSING} =>
         jobs[i].next_run_at # NullTime

\* a worker holds a job that was submitted with a delay while another job has
\* been completed
C12_Witness ==
  \E i, k \in Stored, w \in Workers :
    /\ jobs[i].state = PROCESSING
    /\ wpc[w] = "run" /\ wjob[w].id = i
    /\ jobs[i].next_run_at = jobs[i].created_at + MaxDelay
    /\ jobs[k].state = COMPLETED
    /\ jobs[k].next_run_at = NullTime

\* C13: attempts is 0 at submission and no acquire, complete, fail or dlq_retry
\* ever stores a smaller attempts value than the one stored before
C13_AttemptsMonotone ==
  [][\A i \in Ids :
       /\ (jobs[i] = NoRow /\ jobs'[i] # NoRow) => jobs'[i].attempts = 0
       /\ (jobs[i] # NoRow /\ jobs'[i] # NoRow) =>
            jobs'[i].attempts >= jobs[i].attempts]_vars

\* C13 for worker reports alone, leaving aside dlq_retry's reset to 0: no
\* complete_job or fail_job stores a smaller attempts value than the one
\* stored before
C13_ReportsMonotone ==
  [][\A i \in Stored :
       last'.op \in {"complete", "fail"} =>
         jobs'[i].attempts >= jobs[i].attempts]_vars

\* the allowed changes of a row's state
Permitted(from, to) ==
  \/ from = to
  \/ from \in {PENDING, FAILED} /\ to = PROCESSING
  \/ from = PROCESSING /\ to \in {COMPLETED, FAILED, DEAD}
  \/ from = DEAD /\ to = PENDING

\* C14: a new row is PENDING, and a row's state changes only from PENDING or
\* FAILED to PROCESSING, from PROCESSING to COMPLETED, FAILED or DEAD, and from
\* DEAD to PENDING
C14_PermittedTransitions ==
  [][\A i \in Ids :
       /\ (jobs[i] = NoRow /\ jobs'[i] # NoRow) => jobs'[i].state = PENDING
       /\ (jobs[i] # NoRow /\ jobs'[i] # NoRow) =>
            Permitted(jobs[i].state, jobs'[i].state)]_vars

\* C15: a COMPLETED job's state never changes again, and a DEAD job's state
\* changes only in a step in which a dlq_retry of that job succeeds
C15_Terminal ==
  [][\A i \in Stored :
       /\ jobs[i].state = COMPLETED => jobs'[i].state = COMPLETED
       /\ (jobs[i].state = DEAD /\ jobs'[i].state # DEAD) =>
            (last'.op = "dlq_retry" /\ last'.ok /\ last'.id = i)]_vars

\* worker w is between an acquire that returned a job and the end of its
\* report
Holding(w) == wpc[w] \in {"run", "except"}

C17_Cooperative ==
  [][\A w \in Workers :
       /\ (wpc[w] = "run" /\ wpc'[w] # "run") =>
            /\ wpc'[w] = "poll"
            /\ last'.op \in {"complete", "fail"}
            /\ last'.id = wjob[w].id
            /\ jobs'[wjob[w].id].state \in {COMPLETED, FAILED, DEAD}
       /\ (wpc[w] # "exited" /\ wpc'[w] = "exited") =>
            /\ wpc[w] = "poll"
            /\ StopSeen(w)
            /\ wjob[w] = NoJob
            /\ \A i \in Stored :
                 jobs'[i].state = PROCESSING =>
                   \E v \in Workers \ {w} : wpc'[v] = "run" /\ wjob'[v].id = i
       /\ (wpc[w] = "poll" /\ wpc'[w] = "acquire") => ~StopSeen(w)
       /\ wpc[w] = "exited" => wpc'[w] = "exited"]_vars

\* the stop flag is up, one worker has seen it and ended, the other is still
\* running the job it held
C17_Witness ==
  \E w, v \in Workers :
    /\ stopflag /\ spc = "waiting"
    /\ wpc[w] = "exited" /\ ~stopreq[w]
    /\ wpc[v] = "run"
    /\ jobs[wjob[v].id].state = PROCESSING

\* C18: once the stop flag has been raised, every worker that is running then
\* eventually ends
C18_AllExit ==
  \A w \in Workers : (stopflag /\ wpc[w] # "exited") ~> (wpc[w] = "exited")

\* the callers whose call has returned a job, and those it has returned None
Returned == {w \in Workers : wpc[w] = "run"}
Refused == {w \in Workers : wpc[w] = "done"}

\* the eligible jobs of the store the calls began on: the ones still due and
\* the ones the calls have returned
Backlog ==
  {i \in Stored : Due(jobs[i], clock)} \cup {wjob[w].id : w \in Returned}

\* C19: of N callers that each invoke acquire once on a store with M <= N
\* eligible jobs, a call made while an eligible job is left returns one of
\* them, which no other call has returned, and takes exactly it out of the
\* eligible jobs; a call made when none is left returns None and changes no
\* row; so when all calls have returned, M of them have a job, pairwise
\* distinct, and N - M have None
C19_ExactlyM ==
  [][/\ \A w \in Workers :
          (wpc[w] = "acquire" /\ wpc'[w] # "acquire") =>
            LET due == {i \in Stored : Due(jobs[i], clock)}
            IN IF due = {}
                 THEN wpc'[w] = "done" /\ jobs' = jobs
                 ELSE /\ wpc'[w] = "run"
                      /\ wjob'[w].id \in due
                      /\ \A v \in Returned : wjob[v].id # wjob'[w].id
                      /\ {i \in Stored : Due(jobs'[i], clock')} =
                           due \ {wjob'[w].id}
                      /\ Backlog' = Backlog
     /\ LET M == Cardinality(Backlog')
            got == {w \in Workers : wpc'[w] = "run"}
            none == {w \in Workers : wpc'[w] = "done"}
        IN (M <= NumWorkers /\ got \cup none = Workers) =>
             /\ Cardinality(got) = M
             /\ Cardinality(none) = NumWorkers - M
             /\ \A w1, w2 \in got :
                  w1 # w2 => wjob'[w1].id # wjob'[w2].id]_vars

\* every caller has returned: one was given the only eligible job, the other
\* None, and a job that is not due yet is still PENDING
C19_Witness ==
  /\ Returned \cup Refused = Workers
  /\ Cardinality(Returned) = 1
  /\ Cardinality(Refused) = NumWorkers - 1
  /\ \E i \in Stored : jobs[i].state = PENDING /\ jobs[i].next_run_at > clock

\* C20: constructing a new JobStorage and QueueEngine on the same database
\* file changes no row: every job is there afterwards with the same state and
\* fields
C20_RestartKeepsRows ==
  [][(last'.op = "restart" /\ last.op # "restart") => jobs' = jobs]_vars

\* the store has just been reopened: a submitted job that was never acquired
\* is still PENDING and a job that failed once is still FAILED
C20_Witness ==
  /\ last.op = "restart"
  /\ \E i, k \in Stored :
       /\ jobs[i].state = PENDING
       /\ jobs[i].attempts = 0
       /\ jobs[i].updated_at = jobs[i].created_at
       /\ jobs[k].state = FAILED
       /\ jobs[k].last_error \in Messages

\* the sum of a per-state count over a set of states
RECURSIVE SumCounts(_, _)
SumCounts(cnt, states) ==
  IF states = {} THEN 0
  ELSE LET s == CHOOSE x \in states : TRUE
       IN cnt[s] + SumCounts(cnt, states \ {s})

\* C21: what metrics() reports is consistent with the store it is taken from:
\* the five per-state counts sum to total_jobs, each of them is the number of
\* stored jobs in that state and is the count status() reports, and
\* success_rate is completed / total, and 0 when there is no job
C21_MetricsConsistent ==
  LET m == metrics(jobs)
  IN /\ SumCounts(m.by_state, JobState) = m.total_jobs
     /\ m.total_jobs = Cardinality(Stored)
     /\ \A s \in JobState :
          /\ m.by_state[s] = Cardinality({i \in Stored : jobs[i].state = s})
          /\ m.by_state[s] = status(jobs)[s]
     /\ IF m.total_jobs = 0
        THEN m.success_rate.num = 0 /\ m.success_rate.den # 0
        ELSE /\ m.success_rate.den # 0
             /\ m.success_rate.num * m.total_jobs
                  = m.by_state[COMPLETED] * m.success_rate.den

\* one of two stored jobs is COMPLETED and the other is waiting for its retry:
\* the success rate is one half
C21_Witness ==
  /\ metrics(jobs).total_jobs = 2
  /\ metrics(jobs).by_state[COMPLETED] = 1
  /\ metrics(jobs).by_state[FAILED] = 1
  /\ metrics(jobs).success_rate = Ratio(1, 2)

\* C22: with a clock that never goes back, every stored job has
\* updated_at >= created_at, also when an acquire has read its 'now' before
\* its transaction starts and a job scheduled in the past is submitted in
\* between
C22_UpdatedAfterCreated ==
  \A i \in Stored : jobs[i].updated_at >= jobs[i].created_at

\* C23: the store holds one row per id: a submission under an id that has a
\* row fails and leaves that row and every other row as they were, no
\* operation removes a row, and the set of stored ids only grows
C23_OneRowPerId ==
  [][/\ \A i \in Stored : jobs'[i] # NoRow /\ jobs'[i].id = i
     /\ (last'.op = "submit" /\ last' # last /\ last'.req.id \in Stored)
          => (~last'.ok /\ jobs' = jobs)]_vars

\* a submission under the id of a job that has completed has just been
\* refused, with the other job in a worker's hands
C23_Witness ==
  /\ last.op = "submit"
  /\ ~last.ok
  /\ last.id \in Stored
  /\ jobs[last.id].state = COMPLETED
  /\ \E k \in Stored : k # last.id /\ jobs[k].state = PROCESSING

\* C24: update_job on an id that has no row, and so complete_job or fail_job
\* on a job the store does not have, is reported to the caller as an error and
\* creates no row
C24_MissingRowReported ==
  [][(last' # last /\ last'.op \in {"complete", "fail"} /\ last'.id \notin Stored)
       => (~last'.ok /\ jobs' = jobs)]_vars

\* C25: command, max_retries, created_at and id of a stored job keep the
\* values they were submitted with: acquire, complete, fail and dlq_retry, in
\* any order and interleaving, never change them
C25_SubmittedFieldsKept ==
  [][\A i \in Stored :
       /\ jobs'[i] # NoRow
       /\ jobs'[i].id = jobs[i].id
       /\ jobs'[i].command = jobs[i].command
       /\ jobs'[i].max_retries = jobs[i].max_retries
       /\ jobs'[i].created_at = jobs[i].created_at]_vars

\* two jobs submitted at different times with different commands and budgets:
\* one has been requeued from the dead letter queue and is running again, the
\* other has completed
C25_Witness ==
  /\ last.op = "acquire" /\ last.ok
  /\ jobs[2] # NoRow /\ jobs[1] # NoRow
  /\ jobs[2].command = OtherCommand
  /\ jobs[2].max_retries = MaxR
  /\ jobs[2].state = PROCESSING
  /\ jobs[2].created_at < jobs[2].updated_at
  /\ nfail[2] = 0 /\ jobs[2].id = last.id
  /\ \E o \in Operators : opc[o] = "update" /\ ojob[o].id = 2
  /\ jobs[1].command = Command
  /\ jobs[1].max_retries = ConfigMaxRetries
  /\ jobs[1].state = COMPLETED
  /\ jobs[1].created_at # jobs[2].created_at

\* C26: compute_backoff(base, attempts) is 0 for attempts <= 0 and base to the
\* power attempts for attempts > 0 (base for one attempt, base times the value
\* for one attempt less after that), for every integer base; the call changes
\* nothing but its result
C26_Backoff ==
  [][backoff_call' # backoff_call =>
       LET base == backoff_call.base
           attempts == backoff_call.attempts
           result == backoff_call'.result
       IN /\ backoff_call'.base = base /\ backoff_call'.attempts = attempts
          /\ attempts <= 0 => result = 0
          /\ attempts = 1 => result = base
          /\ attempts > 1 => result = base * compute_backoff(base, attempts - 1)
          /\ UNCHANGED <<jobs, clock, wpc, wnow, wjob, wres, opc, ojob,
                         stopflag, stopreq, spc, returns, nfail, acquired,
                         last>>]_vars

\* a negative base raised to an odd power has come back negative
C26_Witness ==
  /\ backoff_call.done
  /\ backoff_call.base = -2
  /\ backoff_call.attempts = 3
  /\ backoff_call.result = -8

\* worker w was killed between an acquire that returned job i and its report
Abandoned(w, i) == wpc[w] = "crashed" /\ wjob[w] # NoJob /\ wjob[w].id = i

\* C27: a job whose worker crashes after acquiring it and before reporting
\* stays PROCESSING forever: its row is never written again, no later acquire
\* by any worker returns it, and the passing of time does not make it
\* eligible again
C27_StuckProcessing ==
  [][\A w \in Workers, i \in Ids :
       Abandoned(w, i) =>
         /\ jobs[i].state = PROCESSING
         /\ jobs'[i] = jobs[i]
         /\ \A v \in Workers : AcquireReturns(v) => wjob'[v].id # i]_vars

\* C28: for every job it acquires a worker reports one outcome and only one:
\* complete_job if and only if run_job returned exit code 0, fail_job with the
\* executor's error message for any other exit code or a timeout, and fail_job
\* from the handler when the executor itself raised; it never calls both and
\* never calls one of them a second time for the same acquisition
C28_OneReport ==
  [][\A w \in Workers :
       /\ (wpc[w] = "ran" /\ wpc'[w] # "ran") =>
            /\ last'.id = wjob[w].id
            /\ last'.op = "complete" <=> wres[w].exit_code = 0
            /\ last'.op = "fail" <=> wres[w].exit_code # 0
            /\ last'.op = "fail" => last'.msg = wres[w].error_message
       /\ (wpc[w] = "except" /\ wpc'[w] # "except") =>
            /\ last'.id = wjob[w].id
            /\ last'.op = "fail"
            /\ wjob[w].state = PROCESSING]_vars

\* C29: backoff is respected between retries: a job left FAILED by its Kth
\* failure (K fail reports since submission or the last requeue), reported at
\* time t (its updated_at), has next_run_at later than updated_at, and no
\* acquire that was invoked before t + backoff_base^K returns it
C29_BackoffRespected ==
  [][\A i \in Stored :
       jobs[i].state = FAILED =>
         /\ jobs[i].next_run_at # NullTime
         /\ jobs[i].next_run_at > jobs[i].updated_at
         /\ \A w \in Workers :
              (AcquireReturns(w) /\ wjob'[w].id = i) =>
                wnow[w] >= jobs[i].updated_at
                             + Pow(ConfigBackoffBase, nfail[i])]_vars

\* C30: with a worker that keeps running, commands that end, a clock that
\* goes on, no store error, no crash and no dlq_retry, every submitted job
\* eventually is COMPLETED or DEAD, whatever other jobs are submitted
C30_EveryJobEnds ==
  \A i \in Ids :
    (jobs[i] # NoRow) ~> (jobs[i] # NoRow /\ jobs[i].state \in {COMPLETED, DEAD})

\* one job has completed on its retry, after the backoff of its first
\* failure, and the other has died of its second failure
C30_Witness ==
  \E i, k \in Stored :
    /\ jobs[i].state = COMPLETED
    /\ jobs[i].attempts = 1
    /\ jobs[i].updated_at >= jobs[i].created_at + ConfigBackoffBase
    /\ jobs[k].state = DEAD
    /\ jobs[k].attempts = ConfigMaxRetries

\* the larger of two integers
MaxOf(a, b) == IF a >= b THEN a ELSE b

\* worker w's fail report is stored in this step
FailReports(w) == wpc[w] = "run" /\ wpc'[w] = "poll" /\ last'.op = "fail"

\* C31: between its submission (or its latest successful dlq_retry) and the
\* next dlq_retry, a job with max_retries = R is returned by acquires at most
\* max(1, R) times; a job with R <= 0 is returned by an acquire all the same,
\* and its first fail report stores it DEAD
C31_BudgetBoundsExecutions ==
  [][\A w \in Workers :
       /\ AcquireReturns(w) =>
            acquired'[wjob'[w].id]
              <= MaxOf(1, jobs[wjob'[w].id].max_retries)
       /\ (FailReports(w) /\ wjob[w].max_retries <= 0) =>
            jobs'[wjob[w].id].state = DEAD]_vars
====
